---- MODULE Spec2Model ----
(***************************************************************************)
(* Model of the web3.storage client (class Web3Storage and the utils       *)
(* object).  The client is a stateless facade: every method issues HTTP    *)
(* requests through axios and reshapes the outcome.  The model keeps, for  *)
(* the call in progress or last completed, its inputs, what the            *)
(* environment (file system, HTTP transport) answered, and what the call   *)
(* returned or threw.  utils.withRetry is a loop with suspension points    *)
(* and is modelled step by step.                                           *)
(*                                                                         *)
(* JavaScript strings are sequences of one-character strings, so that      *)
(* JSON.stringify, JSON.parse, parseInt, toFixed and the CID regular       *)
(* expression are computed character by character.  Byte counts are        *)
(* sequences of decimal digits, most significant first, because they       *)
(* exceed 32-bit integers (JavaScript numbers are exact up to 2^53).       *)
(***************************************************************************)
EXTENDS Integers, Sequences, FiniteSets, TLC

VARIABLES op, cid, paths, byteCount, env, reqs, ret, pc, maxRetries, delay, i, lastError,
          hist, waits

vars ==
  <<op, cid, paths, byteCount, env, reqs, ret, pc, maxRetries, delay, i, lastError, hist, waits>>

----------------------------------------------------------------------------
(* Bounds of the model.                                                    *)

\* Largest maxRetries passed to withRetry / uploadWithRetry.
MaxRetriesBound == 3

\* Longest list of paths passed to uploadMultiple.
MaxPaths == 2

\* Longest uploads array answered by user/uploads.
MaxUploads == 2

\* Longest cid passed to getFileUrl / getUpload / getFileSize.
MaxCidLen == 60

\* Every byte count up to this one is given to formatFileSize.
MaxSmallBytes == 1100

\* The largest power of 1024 whose multiples are given to formatFileSize.
MaxUnitPower == 5

----------------------------------------------------------------------------
(* String helpers.                                                         *)

Max(a, b) == IF a >= b THEN a ELSE b

DigitChars == <<"0","1","2","3","4","5","6","7","8","9">>

IsDigit(c) == \E d \in 1..10 : DigitChars[d] = c

DigitVal(c) == (CHOOSE d \in 1..10 : DigitChars[d] = c) - 1

LowerChars == <<"a","b","c","d","e","f","g","h","i","j","k","l","m","n","o","p","q","r","s","t","u","v","w","x","y","z">>

UpperChars == <<"A","B","C","D","E","F","G","H","I","J","K","L","M","N","O","P","Q","R","S","T","U","V","W","X","Y","Z">>

IsAlnum(c) ==
  \/ IsDigit(c)
  \/ \E k \in 1..26 : LowerChars[k] = c \/ UpperChars[k] = c

MatchAt(s, k, lit) ==
  /\ k + Len(lit) - 1 <= Len(s)
  /\ SubSeq(s, k, k + Len(lit) - 1) = lit

\* String.prototype.replace with a string pattern: the first occurrence only.
ReplaceFirst(s, pat, rep) ==
  IF \E k \in 1..Len(s) : MatchAt(s, k, pat)
  THEN LET k == CHOOSE k \in 1..Len(s) :
                  MatchAt(s, k, pat) /\ \A j \in 1..(k-1) : ~MatchAt(s, j, pat)
       IN SubSeq(s, 1, k - 1) \o rep \o SubSeq(s, k + Len(pat), Len(s))
  ELSE s

----------------------------------------------------------------------------
(* Non-negative integers as digit sequences (most significant first,       *)
(* no leading zero, zero is <<0>>).                                        *)

RECURSIVE DropZeros(_)
DropZeros(a) == IF Len(a) > 1 /\ a[1] = 0 THEN DropZeros(Tail(a)) ELSE a

\* The digits of f as a sequence in canonical form.
StripZeros(f) == DropZeros(SubSeq(f, 1, Len(f)))

DAdd(a, b) ==
  LET n == Max(Len(a), Len(b)) + 1
      A(j) == IF j <= Len(a) THEN a[Len(a) + 1 - j] ELSE 0
      B(j) == IF j <= Len(b) THEN b[Len(b) + 1 - j] ELSE 0
      carry[j \in 0..n] == IF j = 0 THEN 0 ELSE (A(j) + B(j) + carry[j-1]) \div 10
  IN StripZeros([p \in 1..n |-> (A(n+1-p) + B(n+1-p) + carry[n-p]) % 10])

\* a * m for a small factor m (at most 1024).
DMulSmall(a, m) ==
  LET n == Len(a) + 4
      A(j) == IF j <= Len(a) THEN a[Len(a) + 1 - j] ELSE 0
      carry[j \in 0..n] == IF j = 0 THEN 0 ELSE (A(j) * m + carry[j-1]) \div 10
  IN StripZeros([p \in 1..n |-> (A(n+1-p) * m + carry[n-p]) % 10])

\* floor(a / m) for a small divisor m (at most 1024).
DDivSmall(a, m) ==
  LET rem[j \in 0..Len(a)] == IF j = 0 THEN 0 ELSE (rem[j-1] * 10 + a[j]) % m
  IN StripZeros([j \in 1..Len(a) |-> (rem[j-1] * 10 + a[j]) \div m])

DLess(a, b) ==
  \/ Len(a) < Len(b)
  \/ /\ Len(a) = Len(b)
     /\ \E j \in 1..Len(a) : a[j] < b[j] /\ \A k \in 1..(j-1) : a[k] = b[k]

\* a * 1024^n
RECURSIVE DMulPow1024(_, _)
DMulPow1024(a, n) == IF n = 0 THEN a ELSE DMulPow1024(DMulSmall(a, 1024), n - 1)

\* floor(a / 1024^n)
RECURSIVE DDivPow1024(_, _)
DDivPow1024(a, n) == IF n = 0 THEN a ELSE DDivPow1024(DDivSmall(a, 1024), n - 1)

DTimes100(a) == IF a = <<0>> THEN a ELSE a \o <<0, 0>>

RECURSIVE NatDigits(_)
NatDigits(n) == IF n < 10 THEN <<n>> ELSE Append(NatDigits(n \div 10), n % 10)

\* Number.prototype.toString of a non-negative integer.
NumChars(d) == SubSeq([j \in 1..Len(d) |-> DigitChars[d[j] + 1]], 1, Len(d))

\* x.toFixed(2) for x = a / 1024^n: the k with k / 100 closest to x, the
\* larger k on a tie, printed with two decimals.  The division by a power of
\* two is exact in a double, so k is floor((100 a + 1024^n / 2) / 1024^n).
ToFixed2(a, n) ==
  LET k == IF n = 0 THEN DTimes100(a)
           ELSE DDivPow1024(DAdd(DTimes100(a), DMulPow1024(<<5, 1, 2>>, n - 1)), n)
      p == IF Len(k) < 3 THEN [j \in 1..(3 - Len(k)) |-> 0] \o k ELSE k
      c == NumChars(p)
  IN SubSeq(c, 1, Len(c) - 2) \o <<".">> \o SubSeq(c, Len(c) - 1, Len(c))

\* String(parseFloat(s)) for s printed by toFixed(2): trailing zeros of the
\* fraction are dropped, and the point with them.
ParseFloatString(s) ==
  LET n == Len(s)
  IN IF s[n] # "0" THEN s
     ELSE IF s[n-1] # "0" THEN SubSeq(s, 1, n - 1)
     ELSE SubSeq(s, 1, n - 3)

----------------------------------------------------------------------------
(* JSON values, JSON.stringify and JSON.parse.                             *)

JNull == [t |-> "null"]

JNum(d) == [t |-> "num", d |-> d]

JStr(s) == [t |-> "str", s |-> s]

JArr(items) == [t |-> "arr", items |-> items]

\* fields: a sequence of [k |-> key, v |-> value], in insertion order.
JObj(fields) == [t |-> "obj", fields |-> fields]

RECURSIVE Stringify(_), StringifyElems(_), StringifyMembers(_)

StringifyElems(items) ==
  IF items = <<>> THEN <<>>
  ELSE Stringify(Head(items))
       \o (IF Len(items) > 1 THEN <<",">> \o StringifyElems(Tail(items)) ELSE <<>>)

StringifyMembers(fields) ==
  IF fields = <<>> THEN <<>>
  ELSE <<"\"">> \o Head(fields).k \o <<"\"", ":">> \o Stringify(Head(fields).v)
       \o (IF Len(fields) > 1 THEN <<",">> \o StringifyMembers(Tail(fields)) ELSE <<>>)

\* JSON.stringify (the strings of the model need no escaping).
Stringify(v) ==
  CASE v.t = "null" -> <<"n","u","l","l">>
    [] v.t = "num"  -> NumChars(v.d)
    [] v.t = "str"  -> <<"\"">> \o v.s \o <<"\"">>
    [] v.t = "arr"  -> <<"[">> \o StringifyElems(v.items) \o <<"]">>
    [] v.t = "obj"  -> <<"{">> \o StringifyMembers(v.fields) \o <<"}">>

ParseFail(k) == [ok |-> FALSE, v |-> JNull, next |-> k]

ParseOk(v, k) == [ok |-> TRUE, v |-> v, next |-> k]

IsWs(c) == c \in {" ", "\t", "\n", "\r"}

RECURSIVE SkipWs(_, _)
SkipWs(s, k) == IF k <= Len(s) /\ IsWs(s[k]) THEN SkipWs(s, k + 1) ELSE k

RECURSIVE NumEnd(_, _)
NumEnd(s, k) == IF k <= Len(s) /\ IsDigit(s[k]) THEN NumEnd(s, k + 1) ELSE k

RECURSIVE StrEnd(_, _)
StrEnd(s, k) == IF k > Len(s) \/ s[k] = "\"" THEN k ELSE StrEnd(s, k + 1)

RECURSIVE ParseValue(_, _), ParseElems(_, _, _), ParseMembers(_, _, _)

\* The elements of an array, from the position after "[" or after a comma.
ParseElems(s, k0, acc) ==
  LET k == SkipWs(s, k0)
  IN IF k <= Len(s) /\ s[k] = "]" /\ acc = <<>> THEN ParseOk(JArr(<<>>), k + 1)
     ELSE LET r == ParseValue(s, k)
              j == SkipWs(s, r.next)
          IN IF ~r.ok THEN r
             ELSE IF j > Len(s) THEN ParseFail(j)
             ELSE IF s[j] = "," THEN ParseElems(s, j + 1, Append(acc, r.v))
             ELSE IF s[j] = "]" THEN ParseOk(JArr(Append(acc, r.v)), j + 1)
             ELSE ParseFail(j)

\* The members of an object, from the position after "{" or after a comma.
ParseMembers(s, k0, acc) ==
  LET k == SkipWs(s, k0)
  IN IF k <= Len(s) /\ s[k] = "}" /\ acc = <<>> THEN ParseOk(JObj(<<>>), k + 1)
     ELSE IF k > Len(s) \/ s[k] # "\"" THEN ParseFail(k)
     ELSE LET e == StrEnd(s, k + 1)
              c == SkipWs(s, e + 1)
          IN IF e > Len(s) THEN ParseFail(e)
             ELSE IF c > Len(s) \/ s[c] # ":" THEN ParseFail(c)
             ELSE LET r == ParseValue(s, c + 1)
                      j == SkipWs(s, r.next)
                      m == Append(acc, [k |-> SubSeq(s, k + 1, e - 1), v |-> r.v])
                  IN IF ~r.ok THEN r
                     ELSE IF j > Len(s) THEN ParseFail(j)
                     ELSE IF s[j] = "," THEN ParseMembers(s, j + 1, m)
                     ELSE IF s[j] = "}" THEN ParseOk(JObj(m), j + 1)
                     ELSE ParseFail(j)

\* One JSON value starting at position k0.  Numbers are the non-negative
\* integers: no text the client hands to JSON.parse holds a sign, a fraction
\* or an exponent.
ParseValue(s, k0) ==
  LET k == SkipWs(s, k0)
  IN IF k > Len(s) THEN ParseFail(k)
     ELSE IF s[k] = "n" THEN
            (IF MatchAt(s, k, <<"n","u","l","l">>) THEN ParseOk(JNull, k + 4) ELSE ParseFail(k))
     ELSE IF IsDigit(s[k]) THEN
            (LET e == IF s[k] = "0" THEN k + 1 ELSE NumEnd(s, k)
             IN ParseOk(JNum([j \in 1..(e - k) |-> DigitVal(s[k + j - 1])]), e))
     ELSE IF s[k] = "\"" THEN
            (LET e == StrEnd(s, k + 1)
             IN IF e > Len(s) THEN ParseFail(e)
                ELSE ParseOk(JStr(SubSeq(s, k + 1, e - 1)), e + 1))
     ELSE IF s[k] = "[" THEN ParseElems(s, k + 1, <<>>)
     ELSE IF s[k] = "{" THEN ParseMembers(s, k + 1, <<>>)
     ELSE ParseFail(k)

\* JSON.parse: a value, or a SyntaxError when the text is not exactly one.
JSONParse(s) ==
  LET r == ParseValue(s, 1)
  IN IF r.ok /\ SkipWs(s, r.next) > Len(s)
     THEN [ok |-> TRUE, v |-> r.v]
     ELSE [ok |-> FALSE, v |-> JNull]

----------------------------------------------------------------------------
(* Values thrown and returned.                                             *)

\* new Error(message)
Err(message) == [isError |-> TRUE, message |-> message]

\* A thrown value that is no Error instance, kept as its String(value).
NonError(str) == [isError |-> FALSE, message |-> str]

\* null (String(null) is "null").
NullValue == NonError(<<"n","u","l","l">>)

\* error instanceof Error ? error.message : fallback
ErrorMessage(error, fallback) == IF error.isError THEN error.message ELSE fallback

Return(v) == [kind |-> "return", val |-> v]

Throw(e) == [kind |-> "throw", err |-> e]

NoResult == [kind |-> "none"]

----------------------------------------------------------------------------
(* utils                                                                   *)

sizes == <<<<"B","y","t","e","s">>, <<"K","B">>, <<"M","B">>, <<"G","B">>, <<"T","B">>>>

\* floor(Math.log(bytes) / Math.log(1024)) for bytes >= 1, as the largest k
\* with 1024^k <= bytes.  The quotient of the two doubles has this floor for
\* the byte counts of the model (powers of 1024, their small multiples and
\* counts well inside a unit); a count a few bytes below 1024^5 rounds up to
\* the next index and is not among them.
RECURSIVE Log1024Floor(_)
Log1024Floor(d) ==
  IF DLess(d, <<1, 0, 2, 4>>) THEN 0 ELSE 1 + Log1024Floor(DDivSmall(d, 1024))

\* utils.formatFileSize; bytes is [neg |-> BOOLEAN, d |-> digits].  A negative
\* count makes Math.log NaN, and NaN indexes no unit.
formatFileSize(bytes) ==
  IF bytes.d = <<0>> THEN <<"0"," ","B","y","t","e","s">>
  ELSE IF bytes.neg THEN <<"N","a","N">> \o <<" ">> \o <<"u","n","d","e","f","i","n","e","d">>
  ELSE LET k == Log1024Floor(bytes.d)
       IN ParseFloatString(ToFixed2(bytes.d, k)) \o <<" ">>
          \o (IF k + 1 <= Len(sizes) THEN sizes[k + 1] ELSE <<"u","n","d","e","f","i","n","e","d">>)

CidMinLen == 46

CidMaxLen == 59

\* Mutant: the upper length of the pattern is excluded.
isValidCID_Below(c) ==
  /\ Len(c) >= CidMinLen
  /\ Len(c) < CidMaxLen
  /\ \A k \in 1..Len(c) : IsAlnum(c[k])

\* utils.isValidCID: /^[a-zA-Z0-9]{46,59}$/.test(cid)
isValidCID(c) ==
  /\ Len(c) >= CidMinLen
  /\ Len(c) <= CidMaxLen
  /\ \A k \in 1..Len(c) : IsAlnum(c[k])

\* The error withRetry keeps from a failed attempt:
\* error instanceof Error ? error : new Error(String(error))
CapturedError(error) == IF error.isError THEN error ELSE Err(error.message)

\* Mutant: the exponent counts the attempts from one.
BackoffDelay_FromOne(d, k) == d * 2^(k + 1)

\* The backoff before attempt k+1: delay * Math.pow(2, k)
BackoffDelay(d, k) == d * 2^k

\* Mutant: a backoff follows every failed attempt, the last one too.
BackoffFollows_Always(k, max) == k < max

\* Whether attempt k (from 0) is followed by a backoff: k < maxRetries - 1
BackoffFollows(k, max) == k < max - 1

DefaultMaxRetries == 3

DefaultDelay == 1000

----------------------------------------------------------------------------
(* Web3Storage                                                             *)

BASE_URL == <<"h","t","t","p","s",":","/","/","a","p","i",".","w","e","b","3",".","s","t","o","r","a","g","e","/","{","}">>

Endpoint(p) == ReplaceFirst(BASE_URL, <<"{","}">>, p)

\* path.basename
basename(p) ==
  IF \E k \in 1..Len(p) : p[k] = "/"
  THEN LET k == CHOOSE k \in 1..Len(p) :
                  p[k] = "/" /\ \A j \in (k+1)..Len(p) : p[j] # "/"
       IN SubSeq(p, k + 1, Len(p))
  ELSE p

\* Mutant: upload without its catch block, so that a failed read or a
\* rejected request is thrown to the caller.
upload_NoCatch(fileRead, post) ==
  IF ~fileRead.ok THEN Throw(fileRead.err)
  ELSE IF post.kind = "reject" THEN Throw(post.err)
  ELSE IF post.status = 200
  THEN Return([STATUS_CODE |-> 200, RESPONSE |-> Stringify(post.data)])
  ELSE Return([RESPONSE |-> Stringify(post.data)])

\* Web3Storage.upload, given what fs.readFileSync and axios.post answer.  The
\* detected content type and the headers go into the request only.
upload(fileRead, post) ==
  IF ~fileRead.ok
  THEN Return([RESPONSE |-> ErrorMessage(fileRead.err, <<"U","n","k","n","o","w","n"," ","e","r","r","o","r"," ","o","c","c","u","r","r","e","d">>)])
  ELSE IF post.kind = "reject"
  THEN Return([RESPONSE |-> ErrorMessage(post.err, <<"U","n","k","n","o","w","n"," ","e","r","r","o","r"," ","o","c","c","u","r","r","e","d">>)])
  ELSE IF post.status = 200
  THEN Return([STATUS_CODE |-> 200, RESPONSE |-> Stringify(post.data)])
  ELSE Return([RESPONSE |-> Stringify(post.data)])

\* Web3Storage.status, given what axios.get answers.
status(get) ==
  IF get.kind = "reject"
  THEN Return([RESPONSE |-> ErrorMessage(get.err, <<"U","n","k","n","o","w","n"," ","e","r","r","o","r"," ","o","c","c","u","r","r","e","d">>)])
  ELSE IF get.status = 200
  THEN Return([STATUS_CODE |-> 200, RESPONSE |-> Stringify(get.data)])
  ELSE Return([RESPONSE |-> Stringify(get.data)])

\* Mutant: userUploads answering an empty list when the request fails.
userUploads_EmptyList(get) ==
  IF get.kind = "reject" THEN Return(<<"[","]">>) ELSE Return(Stringify(get.data))

\* Web3Storage.userUploads
userUploads(get) ==
  IF get.kind = "reject"
  THEN Return(ErrorMessage(get.err, <<"U","n","k","n","o","w","n"," ","e","r","r","o","r"," ","o","c","c","u","r","r","e","d">>))
  ELSE Return(Stringify(get.data))

\* Web3Storage.getUpload
getUpload(c) == <<"h","t","t","p","s",":","/","/">> \o c \o <<".","i","p","f","s",".","w","3","s",".","l","i","n","k">>

\* Web3Storage.retrieveFile
retrieveFile(get) ==
  IF get.kind = "reject"
  THEN Throw(Err(<<"F","a","i","l","e","d"," ","t","o"," ","r","e","t","r","i","e","v","e"," ","f","i","l","e",":"," ">> \o ErrorMessage(get.err, <<"U","n","k","n","o","w","n"," ","e","r","r","o","r">>)))
  ELSE Return(get.data)

\* Web3Storage.getFileMetadata: the Error thrown on a status other than 200 is
\* caught by the method's own catch and wrapped a second time.
getFileMetadata(get) ==
  IF get.kind = "reject"
  THEN Throw(Err(<<"F","a","i","l","e","d"," ","t","o"," ","g","e","t"," ","m","e","t","a","d","a","t","a",":"," ">> \o ErrorMessage(get.err, <<"U","n","k","n","o","w","n"," ","e","r","r","o","r">>)))
  ELSE IF get.status # 200
  THEN Throw(Err(<<"F","a","i","l","e","d"," ","t","o"," ","g","e","t"," ","m","e","t","a","d","a","t","a",":"," ">>
                 \o ErrorMessage(Err(<<"F","a","i","l","e","d"," ","t","o"," ","g","e","t"," ","m","e","t","a","d","a","t","a",":"," ">> \o get.statusText),
                                 <<"U","n","k","n","o","w","n"," ","e","r","r","o","r">>)))
  ELSE Return(get.data)

\* Mutant: deleteFile answering false when the request fails, as fileExists
\* does.
deleteFile_False(del) ==
  IF del.kind = "reject" THEN Return(FALSE) ELSE Return(del.status = 200)

\* Web3Storage.deleteFile
deleteFile(del) ==
  IF del.kind = "reject"
  THEN Throw(Err(<<"F","a","i","l","e","d"," ","t","o"," ","d","e","l","e","t","e"," ","f","i","l","e",":"," ">> \o ErrorMessage(del.err, <<"U","n","k","n","o","w","n"," ","e","r","r","o","r">>)))
  ELSE Return(del.status = 200)

\* { fileName, ...data }: the own properties of an object are copied after
\* fileName, one named fileName replacing its value; null spreads nothing.
SpreadAfterFileName(name, data) ==
  IF data.t # "obj" THEN JObj(<<[k |-> <<"f","i","l","e","N","a","m","e">>, v |-> JStr(name)]>>)
  ELSE LET over == {j \in 1..Len(data.fields) : data.fields[j].k = <<"f","i","l","e","N","a","m","e">>}
           first == [k |-> <<"f","i","l","e","N","a","m","e">>,
                     v |-> IF over = {} THEN JStr(name)
                           ELSE data.fields[CHOOSE j \in over : \A m \in over : m <= j].v]
       IN JObj(<<first>> \o SelectSeq(data.fields, LAMBDA f : f.k # <<"f","i","l","e","N","a","m","e">>))

\* Mutant: uploadMultiple with the status check after the try block, so that
\* its Error reaches the caller.
uploadMultiple_ThrowOutside(filePaths, fileReads, post) ==
  LET failed(error) ==
        Return([j \in 1..Len(filePaths) |->
                  [RESPONSE |-> ErrorMessage(error, <<"U","n","k","n","o","w","n"," ","e","r","r","o","r"," ","o","c","c","u","r","r","e","d">>)]])
      bad == {j \in 1..Len(fileReads) : ~fileReads[j].ok}
  IN IF bad # {}
     THEN failed(fileReads[CHOOSE j \in bad : \A m \in bad : j <= m].err)
     ELSE IF post.kind = "reject" THEN failed(post.err)
     ELSE IF post.status = 200
     THEN Return([j \in 1..Len(filePaths) |->
                    [STATUS_CODE |-> 200,
                     RESPONSE |-> Stringify(SpreadAfterFileName(basename(filePaths[j]),
                                                                post.data))]])
     ELSE Throw(Err(<<"U","p","l","o","a","d"," ","f","a","i","l","e","d"," ","w","i","t","h"," ","s","t","a","t","u","s",":"," ">> \o NumChars(NatDigits(post.status))))

\* Web3Storage.uploadMultiple.  fileReads holds what fs.readFileSync answered,
\* one per path read: the loop stops at the first read that throws.  The
\* Error thrown on a status other than 200 is thrown inside the try block,
\* so the method's own catch turns it into results like any other.
uploadMultiple(filePaths, fileReads, post) ==
  LET failed(error) ==
        Return([j \in 1..Len(filePaths) |->
                  [RESPONSE |-> ErrorMessage(error, <<"U","n","k","n","o","w","n"," ","e","r","r","o","r"," ","o","c","c","u","r","r","e","d">>)]])
      bad == {j \in 1..Len(fileReads) : ~fileReads[j].ok}
  IN IF bad # {}
     THEN failed(fileReads[CHOOSE j \in bad : \A m \in bad : j <= m].err)
     ELSE IF post.kind = "reject" THEN failed(post.err)
     ELSE IF post.status = 200
     THEN Return([j \in 1..Len(filePaths) |->
                    [STATUS_CODE |-> 200,
                     RESPONSE |-> Stringify(SpreadAfterFileName(basename(filePaths[j]),
                                                                post.data))]])
     ELSE failed(Err(<<"U","p","l","o","a","d"," ","f","a","i","l","e","d"," ","w","i","t","h"," ","s","t","a","t","u","s",":"," ">> \o NumChars(NatDigits(post.status))))

\* Mutant: fileExists taking every answered request for a file.
fileExists_AnyStatus(head) ==
  IF head.kind = "reject" THEN Return(FALSE) ELSE Return(TRUE)

\* Web3Storage.fileExists
fileExists(head) ==
  IF head.kind = "reject" THEN Return(FALSE) ELSE Return(head.status = 200)

\* Mutant: the reducer drops its accumulator, (acc, item) => item.size || 0.
SumSizes_NoAcc(items) ==
  IF items = <<>> THEN [ok |-> TRUE, d |-> <<0>>]
  ELSE LET item == items[Len(items)]
           at == IF item.t = "obj"
                 THEN {j \in 1..Len(item.fields) : item.fields[j].k = <<"s","i","z","e">>}
                 ELSE {}
       IN IF item.t = "null" THEN [ok |-> FALSE, d |-> <<0>>]
          ELSE [ok |-> TRUE,
                d |-> IF at = {} THEN <<0>>
                      ELSE item.fields[CHOOSE j \in at : \A m \in at : m <= j].v.d]

\* data.reduce((acc, item) => acc + (item.size || 0), 0) over objects whose
\* size, when present, is a number; reading .size of null throws a TypeError.
RECURSIVE SumSizes(_)
SumSizes(items) ==
  IF items = <<>> THEN [ok |-> TRUE, d |-> <<0>>]
  ELSE LET item == Head(items)
           rest == SumSizes(Tail(items))
           at == IF item.t = "obj"
                 THEN {j \in 1..Len(item.fields) : item.fields[j].k = <<"s","i","z","e">>}
                 ELSE {}
           size == IF at = {} THEN <<0>>
                   ELSE item.fields[CHOOSE j \in at : \A m \in at : m <= j].v.d
       IN IF item.t = "null" \/ ~rest.ok THEN [ok |-> FALSE, d |-> <<0>>]
          ELSE [ok |-> TRUE, d |-> DAdd(size, rest.d)]

\* Web3Storage.getTotalStorageUsed, given what the axios.get of userUploads
\* answers.  1024 * 1024 * 1024 is 1024^3.
getTotalStorageUsed(get) ==
  LET uploads == userUploads(get).val
      data == JSONParse(uploads)
      wrap(message) == Throw(Err(<<"F","a","i","l","e","d"," ","t","o"," ","g","e","t"," ","s","t","o","r","a","g","e"," ","u","s","a","g","e",":"," ">> \o message))
  IN IF ~data.ok THEN wrap(<<"U","n","e","x","p","e","c","t","e","d"," ","t","o","k","e","n"," ","i","n"," ","J","S","O","N">>)
     ELSE IF data.v.t = "arr"
     THEN LET totalBytes == SumSizes(data.v.items)
          IN IF ~totalBytes.ok THEN wrap(<<"C","a","n","n","o","t"," ","r","e","a","d"," ","p","r","o","p","e","r","t","i","e","s"," ","o","f"," ","n","u","l","l">>)
             ELSE Return(ToFixed2(totalBytes.d, 3) \o <<" ","G","B">>)
     ELSE Return(<<"0"," ","G","B">>)

\* Web3Storage.getFileUrl
getFileUrl(c) ==
  IF ~isValidCID(c) THEN Throw(Err(<<"I","n","v","a","l","i","d"," ","C","I","D"," ","f","o","r","m","a","t">>))
  ELSE Return(<<"h","t","t","p","s",":","/","/">> \o c \o <<".","i","p","f","s",".","w","3","s",".","l","i","n","k">>)

\* parseInt(s, 10) of a header value: an optional sign and the leading
\* digits, NaN when there are none or the header is absent.
ParseInt(header) ==
  IF ~header.present THEN [nan |-> TRUE, neg |-> FALSE, d |-> <<0>>]
  ELSE LET s == header.v
           b == SkipWs(s, 1)
           neg == b <= Len(s) /\ s[b] = "-"
           k == IF b <= Len(s) /\ s[b] \in {"-", "+"} THEN b + 1 ELSE b
           e == NumEnd(s, k)
       IN IF e = k THEN [nan |-> TRUE, neg |-> FALSE, d |-> <<0>>]
          ELSE [nan |-> FALSE, neg |-> neg,
                d |-> StripZeros([j \in 1..(e - k) |-> DigitVal(s[k + j - 1])])]

\* Web3Storage.getFileSize
getFileSize(c, head) ==
  LET url == getFileUrl(c)
      wrap(error) ==
        Throw(Err(<<"F","a","i","l","e","d"," ","t","o"," ","g","e","t"," ","f","i","l","e"," ","s","i","z","e",":"," ">> \o ErrorMessage(error, <<"U","n","k","n","o","w","n"," ","e","r","r","o","r">>)))
  IN IF url.kind = "throw" THEN wrap(url.err)
     ELSE IF head.kind = "reject" THEN wrap(head.err)
     ELSE LET parsed == ParseInt(head.contentLength)
              size == IF parsed.nan THEN [neg |-> FALSE, d |-> <<0>>]
                      ELSE [neg |-> parsed.neg, d |-> parsed.d]
          IN Return(formatFileSize(size))

\* Web3Storage.isValidToken
isValidToken(head) ==
  IF head.kind = "reject" THEN Return(FALSE) ELSE Return(head.status = 200)

----------------------------------------------------------------------------
(* What the callers pass and what the environment answers.                 *)

FilePaths == {<<"d","/","a",".","t","x","t">>, <<"b",".","b","i","n">>}

\* fs.readFileSync: the bytes of the file, or an Error.
FileReads ==
  {[ok |-> TRUE, content |-> <<1, 2>>],
   [ok |-> FALSE, err |-> Err(<<"E","N","O","E","N","T",":"," ","n","o"," ","s","u","c","h"," ","f","i","l","e"," ","o","r"," ","d","i","r","e","c","t","o","r","y">>)]}

\* The non-empty lists of up to n paths.
PathLists(n) == UNION {[1..m -> FilePaths] : m \in 1..n}

\* What the reads of uploadMultiple's loop answer for k paths: the loop
\* stops at the first read that throws.
ReadRuns(k) ==
  {r \in UNION {[1..m -> FileReads] : m \in 1..k} :
     /\ \A j \in 1..(Len(r) - 1) : r[j].ok
     /\ Len(r) < k => ~r[Len(r)].ok}

\* A cid of n characters c, with the character x at position p (no
\* replacement when p is 0).
CidOf(n, c, p, x) == [j \in 1..n |-> IF j = p THEN x ELSE c]

\* The cids given to getUpload and getFileUrl: every length up to MaxCidLen,
\* alphanumeric throughout or with one other character at either end.
Cids ==
  UNION {{CidOf(n, "b", 0, "b"), CidOf(n, "Z", 0, "Z"), CidOf(n, "7", 0, "7"),
          CidOf(n, "b", 1, "-"), CidOf(n, "Q", n, "_"), CidOf(n, "4", n, "\n")}
         : n \in 0..MaxCidLen}

\* The cids at the ends of the valid lengths.
EdgeCids == {c \in Cids : Len(c) \in {0, CidMinLen - 1, CidMinLen, CidMaxLen, MaxCidLen}}

\* The cids given to the calls that do not look at them.
SomeCids == {CidOf(n, "b", 0, "b") : n \in {0, CidMinLen}}

\* The statuses of the responses the transport resolves with: the code tests
\* response.status itself, whatever the transport's validation lets through.
HttpStatuses == {200, 204, 500}

statusText(s) ==
  CASE s = 200 -> <<"O","K">>
    [] s = 204 -> <<"N","o"," ","C","o","n","t","e","n","t">>
    [] OTHER   -> <<"I","n","t","e","r","n","a","l"," ","S","e","r","v","e","r"," ","E","r","r","o","r">>

\* What axios rejects with (no connection, a status its validation refuses),
\* or any other value a transport throws.
Rejections ==
  {Err(<<"N","e","t","w","o","r","k"," ","E","r","r","o","r">>), Err(<<"R","e","q","u","e","s","t"," ","f","a","i","l","e","d"," ","w","i","t","h"," ","s","t","a","t","u","s"," ","c","o","d","e"," ","5","0","0">>),
   NonError(<<"a","b","o","r","t","e","d">>)}

NoHeader == [present |-> FALSE, v |-> <<>>]

\* The outcomes of one axios call whose response body is one of bodies and
\* whose content-length header is one of lengths.
HttpOutcomes(bodies, lengths) ==
  {[kind |-> "resolve", status |-> s, statusText |-> statusText(s), data |-> b,
    contentLength |-> h] : s \in HttpStatuses, b \in bodies, h \in lengths}
  \cup {[kind |-> "reject", err |-> e] : e \in Rejections}

\* Bodies answered to upload and status/{cid}.
ObjectBodies ==
  {JObj(<<[k |-> <<"c","i","d">>, v |-> JStr(<<"b","a","f","y">>)]>>),
   JObj(<<[k |-> <<"m","e","s","s","a","g","e">>, v |-> JStr(<<"n","o">>)],
          [k |-> <<"f","i","l","e","N","a","m","e">>, v |-> JStr(<<"x">>)]>>),
   JNull}

\* The entries of the uploads list: objects with or without a size.
UploadItems ==
  {JObj(<<>>),
   JObj(<<[k |-> <<"s","i","z","e">>, v |-> JNum(<<0>>)]>>),
   JObj(<<[k |-> <<"c","i","d">>, v |-> JStr(<<"b","a","f","y">>)],
          [k |-> <<"s","i","z","e">>, v |-> JNum(<<1,0,7,3,7,4,1,8,2,4>>)]>>),
   JObj(<<[k |-> <<"s","i","z","e">>, v |-> JNum(<<5,3,6,8,7,0,9>>)]>>),
   JObj(<<[k |-> <<"s","i","z","e">>, v |-> JNum(<<1>>)]>>)}

\* Bodies answered to user/uploads: lists of up to n entries, and payloads
\* that are no list.
UploadsBodies(n) ==
  {JArr(items) : items \in UNION {[1..m -> UploadItems] : m \in 0..n}}
  \cup {JObj(<<[k |-> <<"m","e","s","s","a","g","e">>, v |-> JStr(<<"n","o">>)]>>), JNull, JNum(<<5, 0, 0>>),
        JStr(<<"n","o","n","e">>)}

\* The bytes of a retrieved file.
ByteBodies == {<<>>, <<1, 2>>}

\* content-length headers of a HEAD response.
ContentLengths ==
  {NoHeader} \cup
  {[present |-> TRUE, v |-> s] :
     s \in {<<"0">>, <<"1">>, <<"1","0","2","3">>, <<"1","0","2","4">>, <<"1","5","3","6">>, <<"1","0","4","8","5","7","6">>, <<"1","0","7","3","7","4","1","8","2","4">>,
            <<"1","1","2","5","8","9","9","9","0","6","8","4","2","6","2","4">>, <<"a","b","c">>, <<"1","2","a","b","c">>, <<"-","5">>}}

\* The byte counts given to formatFileSize: every count up to MaxSmallBytes,
\* and 1, 1.5, 2 and 1023 times every power of 1024 up to MaxUnitPower.
ByteCounts ==
  {NatDigits(n) : n \in 0..MaxSmallBytes}
  \cup {DMulPow1024(NatDigits(m), k) : m \in {1, 2, 1023}, k \in 0..MaxUnitPower}
  \cup {DMulPow1024(<<1, 5, 3, 6>>, k - 1) : k \in 1..MaxUnitPower}

HeadOutcomes == HttpOutcomes({JNull}, {NoHeader})

\* What the operation given to withRetry does on one invocation.
FnOutcomes ==
  {Return(<<"v","1">>), Return(<<"v","2">>),
   Throw(Err(<<"e","1">>)), Throw(Err(<<"e","2">>)), Throw(NonError(<<"s","3">>))}

Delays == {DefaultDelay, 250}

\* The maxRetries given: the default and everything up to the bound.
RetryCounts == (0..MaxRetriesBound) \cup {DefaultMaxRetries}

Request(method, url) == [method |-> method, url |-> url]

----------------------------------------------------------------------------
(* The state machine.  op, cid, paths: the call and its arguments; env:     *)
(* what the file system and the transport answered to it; reqs: the HTTP   *)
(* requests it sent; ret: what it returned or threw.  pc, maxRetries,      *)
(* delay, i, lastError: the frame of utils.withRetry; hist: the outcomes   *)
(* of the invocations of its operation; waits: its backoff timers.         *)
(* byteCount: the argument of a direct call of utils.formatFileSize.       *)

NoEnv == [fs |-> <<>>, http |-> <<>>]

Init ==
  /\ op = "none" /\ cid = <<>> /\ paths = <<>> /\ byteCount = <<0>>
  /\ env = NoEnv /\ reqs = <<>>
  /\ ret = NoResult
  /\ pc = "idle" /\ maxRetries = 0 /\ delay = 0 /\ i = 0 /\ lastError = NullValue
  /\ hist = <<>> /\ waits = <<>>

\* A call outside withRetry: no frame of withRetry exists.
NoRetryFrame ==
  /\ pc' = "idle" /\ maxRetries' = 0 /\ delay' = 0 /\ i' = 0 /\ lastError' = NullValue
  /\ hist' = <<>> /\ waits' = <<>>

\* A call that runs to completion between two suspensions of the caller.
Call(name, c, ps, fs, http, sent, result) ==
  /\ op' = name /\ cid' = c /\ paths' = ps /\ byteCount' = <<0>>
  /\ env' = [fs |-> fs, http |-> http]
  /\ reqs' = sent
  /\ ret' = result
  /\ NoRetryFrame

Upload ==
  /\ op = "none"
  /\ \E p \in FilePaths, r \in FileReads, h \in HttpOutcomes(ObjectBodies, {NoHeader}) :
       Call("upload", <<>>, <<p>>, <<r>>,
            IF r.ok THEN <<h>> ELSE <<>>,
            IF r.ok THEN <<Request("POST", Endpoint(<<"u","p","l","o","a","d">>))>> ELSE <<>>,
            upload(r, h))

Status ==
  /\ op = "none"
  /\ \E c \in SomeCids, h \in HttpOutcomes(ObjectBodies, {NoHeader}) :
       Call("status", c, <<>>, <<>>, <<h>>,
            <<Request("GET", Endpoint(<<"s","t","a","t","u","s","/">> \o c))>>, status(h))

UserUploads ==
  /\ op = "none"
  /\ \E h \in HttpOutcomes(UploadsBodies(MaxUploads), {NoHeader}) :
       Call("userUploads", <<>>, <<>>, <<>>, <<h>>,
            <<Request("GET", Endpoint(<<"u","s","e","r","/","u","p","l","o","a","d","s">>))>>, userUploads(h))

GetUpload ==
  /\ op = "none"
  /\ \E c \in Cids :
       Call("getUpload", c, <<>>, <<>>, <<>>, <<>>, Return(getUpload(c)))

RetrieveFile ==
  /\ op = "none"
  /\ \E c \in SomeCids, h \in HttpOutcomes(ByteBodies, {NoHeader}) :
       Call("retrieveFile", c, <<>>, <<>>, <<h>>,
            <<Request("GET", <<"h","t","t","p","s",":","/","/">> \o c \o <<".","i","p","f","s",".","w","3","s",".","l","i","n","k">>)>>, retrieveFile(h))

GetFileMetadata ==
  /\ op = "none"
  /\ \E c \in SomeCids, h \in HttpOutcomes(ObjectBodies, {NoHeader}) :
       Call("getFileMetadata", c, <<>>, <<>>, <<h>>,
            <<Request("GET", Endpoint(<<"s","t","a","t","u","s","/">> \o c))>>, getFileMetadata(h))

DeleteFile ==
  /\ op = "none"
  /\ \E c \in SomeCids, h \in HttpOutcomes(ObjectBodies, {NoHeader}) :
       Call("deleteFile", c, <<>>, <<>>, <<h>>,
            <<Request("DELETE", Endpoint(<<"d","e","l","e","t","e","/">> \o c))>>, deleteFile(h))

UploadMultiple ==
  /\ op = "none"
  /\ \E ps \in PathLists(MaxPaths) :
       \E rs \in ReadRuns(Len(ps)), h \in HttpOutcomes(ObjectBodies, {NoHeader}) :
         LET sent == \A j \in 1..Len(rs) : rs[j].ok
         IN Call("uploadMultiple", <<>>, ps, rs,
                 IF sent THEN <<h>> ELSE <<>>,
                 IF sent THEN <<Request("POST", Endpoint(<<"u","p","l","o","a","d">>))>> ELSE <<>>,
                 uploadMultiple(ps, rs, h))

FileExists ==
  /\ op = "none"
  /\ \E c \in SomeCids, h \in HeadOutcomes :
       Call("fileExists", c, <<>>, <<>>, <<h>>,
            <<Request("HEAD", <<"h","t","t","p","s",":","/","/">> \o c \o <<".","i","p","f","s",".","w","3","s",".","l","i","n","k">>)>>, fileExists(h))

GetTotalStorageUsed ==
  /\ op = "none"
  /\ \E h \in HttpOutcomes(UploadsBodies(MaxUploads), {NoHeader}) :
       Call("getTotalStorageUsed", <<>>, <<>>, <<>>, <<h>>,
            <<Request("GET", Endpoint(<<"u","s","e","r","/","u","p","l","o","a","d","s">>))>>, getTotalStorageUsed(h))

GetFileUrl ==
  /\ op = "none"
  /\ \E c \in Cids :
       Call("getFileUrl", c, <<>>, <<>>, <<>>, <<>>, getFileUrl(c))

GetFileSize ==
  /\ op = "none"
  /\ \E c \in EdgeCids, h \in HttpOutcomes({JNull}, ContentLengths) :
       LET sent == isValidCID(c)
       IN Call("getFileSize", c, <<>>, <<>>,
               IF sent THEN <<h>> ELSE <<>>,
               IF sent THEN <<Request("HEAD", getFileUrl(c).val)>> ELSE <<>>,
               getFileSize(c, h))

IsValidToken ==
  /\ op = "none"
  /\ \E h \in HeadOutcomes :
       Call("isValidToken", <<>>, <<>>, <<>>, <<h>>,
            <<Request("HEAD", Endpoint(<<"u","s","e","r","/","u","p","l","o","a","d","s">>))>>, isValidToken(h))

\* utils.formatFileSize called on its own.
FormatFileSize ==
  /\ op = "none"
  /\ \E b \in ByteCounts :
       /\ op' = "formatFileSize" /\ byteCount' = b
       /\ cid' = <<>> /\ paths' = <<>> /\ env' = NoEnv /\ reqs' = <<>>
       /\ ret' = Return(formatFileSize([neg |-> FALSE, d |-> b]))
       /\ NoRetryFrame

\* utils.withRetry(fn, maxRetries, delay) is entered: lastError = null, i = 0.
EnterRetry(name, ps, max, d) ==
  /\ op' = name /\ cid' = <<>> /\ paths' = ps /\ byteCount' = <<0>>
  /\ env' = NoEnv /\ reqs' = <<>>
  /\ ret' = NoResult
  /\ pc' = "loop" /\ maxRetries' = max /\ delay' = d /\ i' = 0
  /\ lastError' = NullValue /\ hist' = <<>> /\ waits' = <<>>

WithRetry ==
  /\ op = "none"
  /\ \E max \in RetryCounts, d \in Delays :
       EnterRetry("withRetry", <<>>, max, d)

\* uploadWithRetry(filePath, token, maxRetries) gives withRetry its third
\* parameter's default.
UploadWithRetry ==
  /\ op = "none"
  /\ \E p \in FilePaths, max \in RetryCounts :
       EnterRetry("uploadWithRetry", <<p>>, max, DefaultDelay)

\* One pass of the loop body: fn is invoked and answers o.  A value is
\* returned at once; an error is kept and, unless this was the last attempt,
\* the backoff timer is set.
Attempt(o, fs, http, sent) ==
  /\ pc = "loop" /\ i < maxRetries
  /\ hist' = Append(hist, o)
  /\ env' = [fs |-> fs, http |-> http]
  /\ reqs' = reqs \o sent
  /\ IF o.kind = "return"
     THEN /\ ret' = o /\ pc' = "idle"
          /\ UNCHANGED <<i, lastError, waits>>
     ELSE /\ lastError' = CapturedError(o.err)
          /\ IF BackoffFollows(i, maxRetries)
             THEN pc' = "wait" /\ waits' = Append(waits, BackoffDelay(delay, i))
                  /\ i' = i
             ELSE pc' = "loop" /\ i' = i + 1 /\ waits' = waits
          /\ ret' = ret
  /\ UNCHANGED <<op, cid, paths, byteCount, maxRetries, delay>>

\* The attempt of withRetry on an operation of the caller.
RetryAttempt ==
  /\ op = "withRetry"
  /\ \E o \in FnOutcomes : Attempt(o, <<>>, <<>>, <<>>)

\* The attempt of uploadWithRetry: fn is () => this.upload(filePath, token).
UploadAttempt ==
  /\ op = "uploadWithRetry"
  /\ \E r \in FileReads, h \in HttpOutcomes(ObjectBodies, {NoHeader}) :
       Attempt(upload(r, h), <<r>>,
               IF r.ok THEN <<h>> ELSE <<>>,
               IF r.ok THEN <<Request("POST", Endpoint(<<"u","p","l","o","a","d">>))>> ELSE <<>>)

\* The backoff timer fires and the loop goes on to the next attempt.
RetryTimer ==
  /\ pc = "wait"
  /\ pc' = "loop" /\ i' = i + 1
  /\ UNCHANGED <<op, cid, paths, byteCount, env, reqs, ret, maxRetries, delay, lastError, hist,
                 waits>>

\* The loop is left without a value: throw lastError.
RetryExhausted ==
  /\ pc = "loop" /\ ~(i < maxRetries)
  /\ ret' = Throw(lastError) /\ pc' = "idle"
  /\ UNCHANGED <<op, cid, paths, byteCount, env, reqs, maxRetries, delay, i, lastError, hist,
                 waits>>

\* The caller has taken what the call returned or threw.  The client keeps
\* nothing of a call: its only field is the constant BASE_URL.
Release ==
  /\ op # "none" /\ pc = "idle"
  /\ op' = "none" /\ cid' = <<>> /\ paths' = <<>> /\ byteCount' = <<0>>
  /\ env' = NoEnv /\ reqs' = <<>>
  /\ ret' = NoResult
  /\ NoRetryFrame

Next ==
  \/ Upload
  \/ Status
  \/ UserUploads
  \/ GetUpload
  \/ RetrieveFile
  \/ GetFileMetadata
  \/ DeleteFile
  \/ UploadMultiple
  \/ FileExists
  \/ GetTotalStorageUsed
  \/ GetFileUrl
  \/ GetFileSize
  \/ IsValidToken
  \/ FormatFileSize
  \/ WithRetry
  \/ UploadWithRetry
  \/ RetryAttempt
  \/ UploadAttempt
  \/ RetryTimer
  \/ RetryExhausted
  \/ Release

Spec == Init /\ [][Next]_vars

----------------------------------------------------------------------------
(* Properties.                                                             *)

\* What the call's HTTP request was answered, when it sent one.
Answered == env.http # <<>>

Resolved == Answered /\ env.http[1].kind = "resolve"

Rejected == Answered /\ env.http[1].kind = "reject"

ReadFailed == env.fs # <<>> /\ ~env.fs[Len(env.fs)].ok

StartsWith(s, prefix) == Len(s) >= Len(prefix) /\ SubSeq(s, 1, Len(prefix)) = prefix

RECURSIVE SumSeq(_)
SumSeq(s) == IF s = <<>> THEN 0 ELSE Head(s) + SumSeq(Tail(s))

\* C1: withRetry, success after failures.  Whenever the operation given to
\* withRetry has answered with a value, every earlier invocation failed, there
\* were k < maxRetries of them, the call is over and returned that value (so
\* the operation is invoked k+1 times and never again), and the backoffs were
\* exactly delay * 2^j after the j-th failure (j from 0): delay + 2 * delay in
\* all for k = 2 and maxRetries = 3.
C1_SuccessAfterFailures ==
  (op = "withRetry" /\ hist # <<>> /\ hist[Len(hist)].kind = "return") =>
    LET k == Len(hist) - 1
    IN /\ \A j \in 1..k : hist[j].kind = "throw"
       /\ k < maxRetries
       /\ pc = "idle"
       /\ ret = Return(hist[k + 1].val)
       /\ Len(waits) = k
       /\ \A j \in 1..k : waits[j] = delay * 2^(j - 1)
       /\ (k = 2 /\ maxRetries = 3 => SumSeq(waits) = delay + 2 * delay)

\* C1 witness: two failures, then a value, with maxRetries = 3.
C1_Witness ==
  /\ op = "withRetry" /\ maxRetries = 3 /\ Len(hist) = 3
  /\ hist[1].kind = "throw" /\ hist[2].kind = "throw" /\ hist[3].kind = "return"
  /\ ret.kind = "return" /\ delay = 1000 /\ waits = <<1000, 2000>>

\* C2: withRetry, exhaustion.  With maxRetries >= 1 and an operation that has
\* failed on every invocation, the operation is invoked at most maxRetries
\* times and at most maxRetries - 1 backoffs are set; no backoff follows the
\* last failed attempt; nothing is thrown before the maxRetries-th failure,
\* and what is thrown then is the failure of that last attempt (wrapped in
\* an Error when it is not one).
C2_Exhaustion ==
  (op = "withRetry" /\ maxRetries >= 1 /\ \A j \in 1..Len(hist) : hist[j].kind = "throw") =>
    /\ Len(hist) <= maxRetries
    /\ Len(waits) = (IF Len(hist) = maxRetries THEN maxRetries - 1 ELSE Len(hist))
    /\ (Len(hist) = maxRetries => pc # "wait")
    /\ (Len(hist) < maxRetries => ret.kind = "none")
    /\ (Len(hist) = maxRetries =>
          \/ pc = "loop" /\ i = maxRetries /\ ret.kind = "none"
          \/ /\ pc = "idle" /\ ret.kind = "throw" /\ ret.err.isError
             /\ ret.err.message = hist[maxRetries].err.message
             /\ (hist[maxRetries].err.isError => ret.err = hist[maxRetries].err))

\* C2 witness: three failures with maxRetries = 3, the last one not the first.
C2_Witness ==
  /\ op = "withRetry" /\ maxRetries = 3 /\ Len(hist) = 3 /\ pc = "idle"
  /\ ret.kind = "throw" /\ hist[1].err # hist[3].err /\ Len(waits) = 2

\* C3: swallowing contract.  upload, status and userUploads always return.
\* For upload and status the result has STATUS_CODE 200 exactly when the
\* response status is 200; on every answered status RESPONSE is the
\* serialized body (it parses back to the body); on a thrown Error it is the
\* Error's message (the fallback text for any other thrown value), with no
\* STATUS_CODE.  userUploads returns the serialized body or the message.
C3_Swallowing ==
  /\ op \in {"upload", "status"} =>
       /\ ret.kind = "return"
       /\ ("STATUS_CODE" \in DOMAIN ret.val) = (Resolved /\ env.http[1].status = 200)
       /\ ("STATUS_CODE" \in DOMAIN ret.val => ret.val.STATUS_CODE = 200)
       /\ (Resolved => JSONParse(ret.val.RESPONSE) = [ok |-> TRUE, v |-> env.http[1].data])
       /\ (~Resolved =>
             LET e == IF ReadFailed THEN env.fs[1].err ELSE env.http[1].err
             IN /\ DOMAIN ret.val = {"RESPONSE"}
                /\ (e.isError => ret.val.RESPONSE = e.message)
                /\ (~e.isError => ret.val.RESPONSE = <<"U","n","k","n","o","w","n"," ","e","r","r","o","r"," ","o","c","c","u","r","r","e","d">>))
  /\ op = "userUploads" =>
       /\ ret.kind = "return"
       /\ (Resolved => JSONParse(ret.val) = [ok |-> TRUE, v |-> env.http[1].data])
       /\ (Rejected /\ env.http[1].err.isError => ret.val = env.http[1].err.message)
       /\ (Rejected /\ ~env.http[1].err.isError => ret.val = <<"U","n","k","n","o","w","n"," ","e","r","r","o","r"," ","o","c","c","u","r","r","e","d">>)

\* C3 witness: upload answered 500 returns the body with no STATUS_CODE.
C3_Witness ==
  /\ op = "upload" /\ Resolved /\ env.http[1].status = 500
  /\ ret.kind = "return" /\ DOMAIN ret.val = {"RESPONSE"}

\* C4 as claimed: when the POST of uploadMultiple is answered with a status
\* other than 200, uploadMultiple throws to the caller.
C4_ThrowsOnNon200 ==
  (op = "uploadMultiple" /\ Resolved /\ env.http[1].status # 200) => ret.kind = "throw"

\* C4 amended: uploadMultiple never throws.  It returns one result per path;
\* on a status other than 200 every result carries the message "Upload failed
\* with status: <status>" and no STATUS_CODE, and on a failed read or a
\* rejected request every result carries that error's message and no
\* STATUS_CODE.
C4_NeverThrows ==
  op = "uploadMultiple" =>
    /\ ret.kind = "return"
    /\ Len(ret.val) = Len(paths)
    /\ (Resolved /\ env.http[1].status # 200 =>
          \A j \in 1..Len(paths) :
            ret.val[j] = [RESPONSE |-> <<"U","p","l","o","a","d"," ","f","a","i","l","e","d"," ","w","i","t","h"," ","s","t","a","t","u","s",":"," ">>
                                       \o NumChars(NatDigits(env.http[1].status))])
    /\ (~Resolved =>
          LET e == IF ReadFailed THEN env.fs[Len(env.fs)].err ELSE env.http[1].err
          IN \A j \in 1..Len(paths) :
               /\ DOMAIN ret.val[j] = {"RESPONSE"}
               /\ ret.val[j] = ret.val[1]
               /\ (e.isError => ret.val[j].RESPONSE = e.message))
    /\ (Resolved /\ env.http[1].status = 200 =>
          \A j \in 1..Len(paths) : ret.val[j].STATUS_CODE = 200)

\* C4 witness: two paths, the POST answered 500, two results returned.
C4_Witness ==
  /\ op = "uploadMultiple" /\ Len(paths) = 2 /\ Resolved /\ env.http[1].status = 500
  /\ ret.kind = "return" /\ Len(ret.val) = 2

\* C5: boolean-collapsing contract.  fileExists and isValidToken always
\* return a boolean: true exactly when the HEAD request is answered 200,
\* false whenever it is rejected.
C5_BooleanCollapsing ==
  op \in {"fileExists", "isValidToken"} =>
    /\ ret.kind = "return"
    /\ ret.val \in BOOLEAN
    /\ (ret.val => Resolved /\ env.http[1].status = 200)
    /\ (Rejected => ret.val = FALSE)
    /\ (Resolved /\ env.http[1].status = 200 => ret.val)

\* C5 witness: a rejected HEAD request gives false.
C5_Witness ==
  /\ op = "fileExists" /\ Rejected /\ ret = Return(FALSE)

AlnumChars ==
  {"0","1","2","3","4","5","6","7","8","9",
   "a","b","c","d","e","f","g","h","i","j","k","l","m",
   "n","o","p","q","r","s","t","u","v","w","x","y","z",
   "A","B","C","D","E","F","G","H","I","J","K","L","M",
   "N","O","P","Q","R","S","T","U","V","W","X","Y","Z"}

\* C6: getFileUrl throws exactly when the cid is not 46 to 59 characters all
\* in [A-Za-z0-9], and otherwise returns https://{cid}.ipfs.w3s.link, the
\* URL getUpload gives; getUpload returns that URL for every cid, the empty
\* one included.
C6_FileUrl ==
  /\ op = "getFileUrl" =>
       /\ (ret.kind = "throw") =
            ~(Len(cid) \in 46..59 /\ \A k \in 1..Len(cid) : cid[k] \in AlnumChars)
       /\ ret.kind \in {"throw", "return"}
       /\ (ret.kind = "return" =>
             /\ ret.val = <<"h","t","t","p","s",":","/","/">> \o cid \o <<".","i","p","f","s",".","w","3","s",".","l","i","n","k">>
             /\ ret.val = getUpload(cid))
  /\ op = "getUpload" => ret = Return(<<"h","t","t","p","s",":","/","/">> \o cid \o <<".","i","p","f","s",".","w","3","s",".","l","i","n","k">>)

\* C6 witness: a cid of 59 alphanumeric characters gets its URL.
C6_Witness ==
  /\ op = "getFileUrl" /\ Len(cid) = 59 /\ ret.kind = "return"

PrefixOf(name) ==
  CASE name = "retrieveFile"    -> <<"F","a","i","l","e","d"," ","t","o"," ","r","e","t","r","i","e","v","e"," ","f","i","l","e",":"," ">>
    [] name = "getFileMetadata" -> <<"F","a","i","l","e","d"," ","t","o"," ","g","e","t"," ","m","e","t","a","d","a","t","a",":"," ">>
    [] name = "deleteFile"      -> <<"F","a","i","l","e","d"," ","t","o"," ","d","e","l","e","t","e"," ","f","i","l","e",":"," ">>
    [] name = "getFileSize"     -> <<"F","a","i","l","e","d"," ","t","o"," ","g","e","t"," ","f","i","l","e"," ","s","i","z","e",":"," ">>

\* C7: propagating contract.  retrieveFile, getFileMetadata, deleteFile and
\* getFileSize throw, and return nothing, whenever their request is rejected
\* or an exception is raised inside the call (the invalid cid of
\* getFileSize); what they throw is an Error whose message is the
\* operation's prefix followed by the message of the failure.
\* getFileMetadata throws on every status other than 200, and deleteFile,
\* when it returns, returns true exactly when the status is 200.
C7_Propagating ==
  op \in {"retrieveFile", "getFileMetadata", "deleteFile", "getFileSize"} =>
    /\ ret.kind \in {"throw", "return"}
    /\ (Rejected \/ ~Answered => ret.kind = "throw")
    /\ (ret.kind = "throw" =>
          /\ ret.err.isError
          /\ StartsWith(ret.err.message, PrefixOf(op)))
    /\ (Rejected /\ env.http[1].err.isError =>
          ret.err.message = PrefixOf(op) \o env.http[1].err.message)
    /\ (op = "getFileMetadata" /\ Resolved /\ env.http[1].status # 200 =>
          ret.kind = "throw")
    /\ (op = "deleteFile" /\ ret.kind = "return" =>
          (ret.val = TRUE) = (env.http[1].status = 200))
    /\ (op \in {"retrieveFile", "deleteFile", "getFileSize"} /\ Resolved =>
          ret.kind = "return")

\* C7 witness: deleteFile throws when its request is rejected.
C7_Witness ==
  /\ op = "deleteFile" /\ Rejected /\ ret.kind = "throw"
  /\ ret.err.message = <<"F","a","i","l","e","d"," ","t","o"," ","d","e","l","e","t","e"," ","f","i","l","e",":"," ","N","e","t","w","o","r","k"," ","E","r","r","o","r">>

\* The size of an entry of the uploads list: 0 when it has none.
SizeOf(item) ==
  IF \E j \in 1..Len(item.fields) : item.fields[j].k = <<"s","i","z","e">>
  THEN item.fields[CHOOSE j \in 1..Len(item.fields) : item.fields[j].k = <<"s","i","z","e">>].v.d
  ELSE <<0>>

RECURSIVE TotalOf(_)
TotalOf(items) ==
  IF items = <<>> THEN <<0>>
  ELSE DAdd(TotalOf(SubSeq(items, 1, Len(items) - 1)), SizeOf(items[Len(items)]))

\* s is "<digits>.<two digits> GB" and, read as hundredths, the closest to
\* total / 1024^3 (the upper one of two equally close).
IsGigabytesOf(s, total) ==
  LET n == Len(s)
  IN /\ n >= 7
     /\ SubSeq(s, n - 2, n) = <<" ","G","B">>
     /\ s[n - 5] = "."
     /\ \A j \in (1..(n - 6)) \cup {n - 4, n - 3} : IsDigit(s[j])
     /\ (n > 7 => s[1] # "0")
     /\ LET h == StripZeros([j \in 1..(n - 4) |->
                               DigitVal(s[IF j <= n - 6 THEN j ELSE j + 1])])
            scaled == DAdd(DTimes100(total), <<5,3,6,8,7,0,9,1,2>>)
        IN /\ ~DLess(scaled, DMulPow1024(h, 3))
           /\ DLess(scaled, DMulPow1024(DAdd(h, <<1>>), 3))

\* C8: getTotalStorageUsed.  When user/uploads answers a list (of entries
\* whose size, if any, is a number), the result is the sum of the sizes, an
\* entry without a size or with size 0 counting 0, divided by 1024^3, with
\* exactly two decimals and " GB": "2.00 GB" for a sum of 2147483648 bytes
\* and "0.00 GB" for the empty list.  When the payload is no list the result
\* is "0 GB".
C8_TotalStorage ==
  (op = "getTotalStorageUsed" /\ Resolved) =>
    LET data == env.http[1].data
    IN IF data.t = "arr"
       THEN /\ ret.kind = "return"
            /\ IsGigabytesOf(ret.val, TotalOf(data.items))
            /\ (TotalOf(data.items) = <<2,1,4,7,4,8,3,6,4,8>> => ret.val = <<"2",".","0","0"," ","G","B">>)
            /\ (data.items = <<>> => ret.val = <<"0",".","0","0"," ","G","B">>)
       ELSE ret = Return(<<"0"," ","G","B">>)

\* C8 witness: two entries of 1073741824 bytes give "2.00 GB".
C8_Witness ==
  /\ op = "getTotalStorageUsed" /\ Resolved /\ env.http[1].data.t = "arr"
  /\ Len(env.http[1].data.items) = 2
  /\ \A j \in 1..2 : SizeOf(env.http[1].data.items[j]) = <<1,0,7,3,7,4,1,8,2,4>>
  /\ ret = Return(<<"2",".","0","0"," ","G","B">>)

\* C9: composition of the two error contracts.  When the request of
\* userUploads is rejected (a network error, a status that axios rejects),
\* userUploads returns the error's message as a bare string, and
\* getTotalStorageUsed, which finds no JSON in it, throws
\* "Failed to get storage usage: ..." and returns no value, "0 GB" or other.
C9_FailedUpstreamThrows ==
  /\ (op = "userUploads" /\ Rejected) =>
       /\ ret.kind = "return"
       /\ ret.val = (IF env.http[1].err.isError THEN env.http[1].err.message
                     ELSE <<"U","n","k","n","o","w","n"," ","e","r","r","o","r"," ","o","c","c","u","r","r","e","d">>)
  /\ (op = "getTotalStorageUsed" /\ Rejected) =>
       /\ ret.kind = "throw"
       /\ ret.err.isError
       /\ StartsWith(ret.err.message, <<"F","a","i","l","e","d"," ","t","o"," ","g","e","t"," ","s","t","o","r","a","g","e"," ","u","s","a","g","e",":"," ">>)

\* C9 witness: a rejected upstream request makes getTotalStorageUsed throw.
C9_Witness ==
  /\ op = "getTotalStorageUsed" /\ Rejected
  /\ env.http[1].err = Err(<<"R","e","q","u","e","s","t"," ","f","a","i","l","e","d"," ","w","i","t","h"," ","s","t","a","t","u","s"," ","c","o","d","e"," ","5","0","0">>)
  /\ ret.kind = "throw"

\* C10: uploadWithRetry never retries.  For every maxRetries >= 1 and every
\* outcome of the upload, upload is invoked at most once, no backoff is set,
\* and once upload has answered, the call is over and has returned upload's
\* result as it is.
C10_NeverRetries ==
  (op = "uploadWithRetry" /\ maxRetries >= 1) =>
    /\ Len(hist) <= 1
    /\ waits = <<>>
    /\ pc # "wait"
    /\ Len(reqs) <= 1
    /\ (hist # <<>> =>
          /\ pc = "idle"
          /\ hist[1].kind = "return"
          /\ ret = hist[1]
          /\ "RESPONSE" \in DOMAIN ret.val)
    /\ (hist = <<>> => pc = "loop" /\ i = 0 /\ ret.kind = "none")

\* C10 witness: with maxRetries = 3 an upload whose file cannot be read is
\* invoked once and its error result is returned.
C10_Witness ==
  /\ op = "uploadWithRetry" /\ maxRetries = 3 /\ Len(hist) = 1 /\ ReadFailed
  /\ ret.kind = "return" /\ DOMAIN ret.val = {"RESPONSE"} /\ waits = <<>>

\* The text after the space of a formatFileSize result: its unit.
UnitOf(s) ==
  LET k == CHOOSE j \in 1..Len(s) : s[j] = " " IN SubSeq(s, k + 1, Len(s))

\* k = floor(log1024(b)) taken exactly: 1024^k <= b < 1024^(k+1).
IsLog1024Floor(b, k) ==
  /\ ~DLess(b, DMulPow1024(<<1>>, k))
  /\ DLess(b, DMulPow1024(<<1>>, k + 1))

\* The result of formatFileSize carries a unit of the table, the one at index
\* floor(log1024(byteCount)), and the four named counts give the named texts.
UnitFromTable ==
  /\ ret.kind = "return"
  /\ \E k \in 1..Len(sizes) :
       /\ UnitOf(ret.val) = sizes[k]
       /\ (byteCount # <<0>> => IsLog1024Floor(byteCount, k - 1))
  /\ (byteCount = <<0>> => ret.val = <<"0"," ","B","y","t","e","s">>)
  /\ (byteCount = <<1, 0, 2, 4>> => ret.val = <<"1"," ","K","B">>)
  /\ (byteCount = <<1, 5, 3, 6>> => ret.val = <<"1",".","5"," ","K","B">>)
  /\ (byteCount = <<1, 0, 7, 3, 7, 4, 1, 8, 2, 4>> => ret.val = <<"1"," ","G","B">>)

\* C11: formatFileSize unit selection is clamped by the unit table.  For every
\* non-negative integer byte count, counts of 1024^5 and above included, the
\* unit of the result is one of Bytes, KB, MB, GB, TB, the one at index
\* floor(log1024(bytes)); 0 gives "0 Bytes", 1024 gives "1 KB", 1536 gives
\* "1.5 KB" and 1073741824 gives "1 GB".
C11_UnitFromTable ==
  op = "formatFileSize" => UnitFromTable

\* C11 below the end of the table: for counts under 1024^5 the unit is the
\* table's entry at floor(log1024(bytes)) and the four examples come out.
C11_UnitBelowTableEnd ==
  (op = "formatFileSize" /\ DLess(byteCount, DMulPow1024(<<1>>, Len(sizes)))) =>
    UnitFromTable

\* C11 at the end of the table: 1024^5 bytes are formatted with index 5, one
\* past the last unit, and the result is "1 undefined".
C11_UndefinedUnit ==
  /\ op = "formatFileSize"
  /\ byteCount = DMulPow1024(<<1>>, Len(sizes))
  /\ ret = Return(<<"1"," ","u","n","d","e","f","i","n","e","d">>)

====
